---- MODULE Spec2Model ----
(***************************************************************************)
(* DiversityRewardModel of prompting/validators/reward/diversity.py: the   *)
(* rolling store of historic embeddings and the batch / historic rewards   *)
(* computed by get_rewards.                                                *)
(*                                                                         *)
(* Numbers.  An embedding is a vector of two integers of length Norm, so   *)
(* the cosine similarity of two embeddings is their dot product divided by *)
(* Norm * Norm; similarities and raw scores are kept in units of           *)
(* 1 / (Norm * Norm).  A regularised reward is kept in units of 1 / One.   *)
(***************************************************************************)
EXTENDS Integers, Sequences, FiniteSets

\* ---------------------------------------------------------------- bounds
\* Longest completions list of one request.
MaxBatch == 3
\* Completions served, over all the requests followed from one start.
MaxServed == 4

\* ------------------------------------------------------- python values
\* Values of different Python types are told apart by a type tag; a float
\* that is never None is kept as a bare number.
None == [type |-> "NoneType"]
Float(v) == [type |-> "float", value |-> v]
\* A one-dimensional tensor of rewards.
Tensor(values) == [type |-> "Tensor", values |-> values]
List(items) == [type |-> "list", items |-> items]
Tuple(items) == [type |-> "tuple", items |-> items]
\* What torch.topk raises when k exceeds the size of the selected dimension.
RuntimeError == [type |-> "RuntimeError"]
\* torch.tensor([]): a tensor with no row.
EmptyTensor == << >>

\* The sequence f, as an explicit tuple of its values.
Rows(f) == f \o << >>

Min(a, b) == IF a <= b THEN a ELSE b
Abs(x) == IF x < 0 THEN -x ELSE x

\* ------------------------------------------------------------ embedder
Norm == 5
Unit == Norm * Norm
One == 10000

\* get_embeddings: one L2-normalised vector per sentence, in input order.
\* The sentence transformer is external; three sentences stand for it, one
\* of them embedded exactly opposite to another.
Sentences == {"cat", "dog", "tac"}
Embed == [s \in Sentences |->
            CASE s = "cat" -> <<5, 0>>
              [] s = "dog" -> <<3, 4>>
              [] s = "tac" -> <<-5, 0>>]

get_embeddings(sentences) == Rows([i \in 1..Len(sentences) |-> Embed[sentences[i]]])

\* ----------------------------------------------------------- constants
reward_bottom_k == 2
history_reward_bottom_k == 2
history_range == <<500, 15500>>

\* ---------------------------------------------------------- similarity
Dot(x, y) == x[1] * y[1] + x[2] * y[2]

\* pairwise_cosine_similarity(x, y)[i][j] in units of 1 / Unit: the dot
\* product of the two rows, each divided by its length Norm.
CosineSimilarity(x, y) == (Dot(x, y) * Unit) \div (Norm * Norm)
pairwise_cosine_similarity(x, y) ==
    LET rows == Rows(x)
        columns == Rows(y)
    IN  Rows([i \in 1..Len(rows) |->
                Rows([j \in 1..Len(columns) |-> CosineSimilarity(rows[i], columns[j])])])

\* 1 - torch.abs(similarity), for one row.
Dissimilarity(row) == Rows([j \in 1..Len(row) |-> Unit - Abs(row[j])])

\* torch.topk(row, k, largest=False)[0][-1]: the last of the k smallest
\* values of the row in ascending order, i.e. the value v with fewer than k
\* entries below it and at least k entries not above it.
KthSmallest(row, k) ==
    LET vals == {row[j] : j \in 1..Len(row)}
        below(v) == Cardinality({j \in 1..Len(row) : row[j] < v})
        upto(v) == Cardinality({j \in 1..Len(row) : row[j] <= v})
    IN  CHOOSE v \in vals : below(v) < k /\ k <= upto(v)

\* torch.topk(m, k, largest=False) raises when a row of m has fewer than k
\* entries.
TopKRaises(m, k) == \E i \in 1..Len(m) : Len(m[i]) < k

\* torch.topk(1 - torch.abs(m), k, largest=False)[0][:, -1]
TopKLast(m, k) == Rows([i \in 1..Len(m) |-> KthSmallest(Dissimilarity(m[i]), k)])

\* ---------------------------------------------------------- regularise
\* 1 / (1 + exp(-40 * r + 4)) at r = d / Unit, d = 0..Unit, rounded to 1 / One.
BatchSigmoid ==
    <<180, 832, 3100, 6900, 9168, 9820, 9963, 9993, 9998, 10000, 10000, 10000,
      10000, 10000, 10000, 10000, 10000, 10000, 10000, 10000, 10000, 10000,
      10000, 10000, 10000, 10000>>
\* 1 / (1 + exp(-1000 * r + 50)) at r = d / Unit, d = 0..Unit, rounded to 1 / One.
HistoricSigmoid ==
    <<0, 0, 10000, 10000, 10000, 10000, 10000, 10000, 10000, 10000, 10000, 10000,
      10000, 10000, 10000, 10000, 10000, 10000, 10000, 10000, 10000, 10000,
      10000, 10000, 10000, 10000>>

regularise_batch(rewards) ==
    Rows([i \in 1..Len(rewards) |-> BatchSigmoid[rewards[i] + 1]])
regularise_historic(rewards) ==
    Rows([i \in 1..Len(rewards) |-> HistoricSigmoid[rewards[i] + 1]])

\* ------------------------------------------------------------- history
\* unique: the loop of update_historic_embeddings, element by element.
RECURSIVE UniqueLoop(_, _, _, _)
UniqueLoop(embeddings, i, last_emb, unique_embeddings) ==
    IF i > Len(embeddings)
    THEN unique_embeddings
    ELSE UniqueLoop(embeddings, i + 1, embeddings[i],
                    IF embeddings[i] # last_emb
                    THEN Append(unique_embeddings, embeddings[i])
                    ELSE unique_embeddings)

\* unique with last_emb never advanced: every row is compared with row 0.
RECURSIVE UniqueAgainstFirst(_, _, _)
UniqueAgainstFirst(embeddings, i, unique_embeddings) ==
    IF i > Len(embeddings)
    THEN unique_embeddings
    ELSE UniqueAgainstFirst(embeddings, i + 1,
                            IF embeddings[i] # embeddings[1]
                            THEN Append(unique_embeddings, embeddings[i])
                            ELSE unique_embeddings)
unique_first(embeddings) == UniqueAgainstFirst(embeddings, 1, <<embeddings[1]>>)

unique(embeddings) == UniqueLoop(embeddings, 1, embeddings[1], <<embeddings[1]>>)

\* t[:n]: the first n rows of t.
FirstRows(t, n) == IF Len(t) <= n THEN t ELSE SubSeq(t, 1, n)

\* t[-n:], n > 0: the last n rows of t, all of them when t has fewer.
LastRows(t, n) == IF Len(t) <= n THEN t ELSE SubSeq(t, Len(t) - n + 1, Len(t))

\* update_historic_embeddings with the run of duplicates started at the
\* last row of the store instead of the first row of the batch.
update_deduplicating_history(historic, embeddings) ==
    LET reduced == unique(embeddings)
        fresh == IF Len(historic) > 0 /\ historic[Len(historic)] = reduced[1]
                 THEN Tail(reduced)
                 ELSE reduced
    IN  LastRows(historic \o fresh, history_range[2])

\* The value update_historic_embeddings leaves in self.historic_embeddings.
update_historic_embeddings(historic, embeddings) ==
    LastRows(historic \o unique(embeddings), history_range[2])

\* ------------------------------------------------------------- scoring
\* The window with the newest history_range[0] rows left out instead.
OlderWindowRange(historic) == <<1, Len(historic) - history_range[1]>>

\* self.historic_embeddings[self.history_range[0]:], the columns of the
\* historic comparison: the first and last 1-based position of the store it
\* covers, and the rows at those positions.
HistoricWindowRange(historic) == <<history_range[1] + 1, Len(historic)>>
HistoricWindow(historic) ==
    SubSeq(historic, HistoricWindowRange(historic)[1], HistoricWindowRange(historic)[2])

\* bottom_k = 1: the smallest value of each row, which is the row's
\* similarity with itself.
BatchBottomOne(similarity) == Min(1, Len(similarity))

\* bottom_k = min(self.reward_bottom_k, len(similarity))
BatchBottomK(similarity) == Min(reward_bottom_k, Len(similarity))
\* bottom_k = min(self.history_reward_bottom_k, len(similarity))
HistoricBottomK(similarity) == Min(history_reward_bottom_k, Len(similarity))

\* The size test with <= for <, and without the bottom_k.
HistoryTooSmallInclusive(historic) ==
    Len(historic) <= history_range[1] + history_reward_bottom_k
HistoryTooSmallWithoutK(historic) == Len(historic) < history_range[1]

\* The size test of get_historic_rewards: True when it returns None.
HistoryTooSmall(historic) ==
    Len(historic) < history_range[1] + history_reward_bottom_k

\* One scoring: the bottom_k it used, the number of columns of its
\* similarity matrix, the positions of the store those columns are (none
\* for the batch scoring) and what it returns.
Scoring(bottom_k, columns, window, result) ==
    [bottom_k |-> bottom_k, columns |-> columns, window |-> window, result |-> result]

BatchScoring(embeddings) ==
    LET similarity == pairwise_cosine_similarity(embeddings, embeddings)
        bottom_k == BatchBottomK(similarity)
    IN  Scoring(bottom_k, Len(similarity[1]), << >>,
                IF TopKRaises(similarity, bottom_k)
                THEN RuntimeError
                ELSE Tensor(regularise_batch(TopKLast(similarity, bottom_k))))

get_batch_rewards(embeddings) == BatchScoring(embeddings).result

HistoricScoring(historic, embeddings) ==
    IF HistoryTooSmall(historic)
    THEN Scoring(0, 0, << >>, None)
    ELSE LET similarity == pairwise_cosine_similarity(embeddings, HistoricWindow(historic))
             bottom_k == HistoricBottomK(similarity)
         IN  Scoring(bottom_k, Len(similarity[1]), HistoricWindowRange(historic),
                     IF TopKRaises(similarity, bottom_k)
                     THEN RuntimeError
                     ELSE Tensor(regularise_historic(TopKLast(similarity, bottom_k))))

get_historic_rewards(historic, embeddings) == HistoricScoring(historic, embeddings).result

\* DiversityRewardEvent(reward, batch, historic); historic defaults to None.
DiversityRewardEvent(reward, batch, historic) ==
    [reward |-> reward, batch |-> batch, historic |-> historic]

\* The reward_events list built at the end of get_rewards; b * h is rounded
\* down to the unit 1 / One.
RewardEvents(batch_rewards, historic_rewards) ==
    IF historic_rewards # None
    THEN LET b == batch_rewards.values
             h == historic_rewards.values
         IN  Rows([i \in 1..Min(Len(b), Len(h)) |->
                    DiversityRewardEvent((b[i] * h[i]) \div One, b[i], Float(h[i]))])
    ELSE LET b == batch_rewards.values
         IN  Rows([i \in 1..Len(b) |-> DiversityRewardEvent(b[i], b[i], None)])

\* The store after update_historic_embeddings: scoring after the append.
UpdatedHistory(historic, embeddings) == update_historic_embeddings(historic, embeddings)

\* The store get_historic_rewards reads inside get_rewards: scoring comes
\* before update_historic_embeddings, so it is the store of the call's entry.
ScoredHistory(historic, embeddings) == historic

\* --------------------------------------------------------------- state
VARIABLES
    historic_embeddings,  \* self.historic_embeddings, oldest row first
    served,               \* completions served since the start
    completions,          \* the argument of the last get_rewards
    ret,                  \* its return value
    obs                   \* what that call did: see Observed

vars == <<historic_embeddings, served, completions, ret, obs>>

\* size: rows of the store at the call's entry; embedder_calls: calls of
\* get_embeddings; embeddings: the batch; batch, historic: the two scorings
\* without their results; appended: the rows the call added to the store.
Observed(size, embedder_calls, embeddings, batch, historic, appended) ==
    [size |-> size, embedder_calls |-> embedder_calls, embeddings |-> embeddings,
     batch |-> batch, historic |-> historic, appended |-> appended]

NoScoring == Scoring(0, 0, << >>, None)
Seen(scoring) == [scoring EXCEPT !.result = None]

\* Every list of at most MaxBatch sentences, the empty one included.
Batches == UNION {[1..n -> Sentences] : n \in 0..MaxBatch}

\* The store after n requests ["dog"], each of which adds one row; n is at
\* most the capacity, so no row was dropped.
Settled(n) == Rows([i \in 1..n |-> Embed["dog"]])

\* The stores requests are followed from: the constructed one, one a row
\* short of the size at which historic scoring starts, and one a row short
\* of the capacity.  A request against the last compares each completion
\* with 15000 rows, so it is entered with fewer than MaxBatch completions
\* left to serve.
Constructed == [historic_embeddings |-> EmptyTensor, served |-> 0]
NearlyScored ==
    [historic_embeddings |-> Settled(history_range[1] + history_reward_bottom_k - 1),
     served |-> 0]
NearlyFull ==
    [historic_embeddings |-> Settled(history_range[2] - 1),
     served |-> MaxServed - (MaxBatch - 1)]
Starts == {Constructed, NearlyScored, NearlyFull}

Init ==
    /\ \E start \in Starts :
        /\ historic_embeddings = start.historic_embeddings
        /\ served = start.served
    /\ completions = << >>
    /\ ret = None
    /\ obs = Observed(Len(historic_embeddings), 0, << >>, NoScoring, NoScoring, << >>)

get_rewards(cs) ==
    /\ served + Len(cs) <= MaxServed
    /\ served' = served + Len(cs)
    /\ completions' = cs
    /\ IF Len(cs) = 0
       THEN /\ ret' = Tuple(<<EmptyTensor, None>>)
            /\ obs' = Observed(Len(historic_embeddings), 0, << >>, NoScoring, NoScoring, << >>)
            /\ UNCHANGED historic_embeddings
       ELSE LET embeddings == get_embeddings(cs)
                batch == BatchScoring(embeddings)
                historic == HistoricScoring(ScoredHistory(historic_embeddings, embeddings),
                                            embeddings)
                batch_rewards == batch.result
                historic_rewards == historic.result
            IN  IF batch_rewards = RuntimeError \/ historic_rewards = RuntimeError
                THEN /\ ret' = RuntimeError
                     /\ obs' = Observed(Len(historic_embeddings), 1, embeddings,
                                        Seen(batch), Seen(historic), << >>)
                     /\ UNCHANGED historic_embeddings
                ELSE /\ historic_embeddings' =
                            update_historic_embeddings(historic_embeddings, embeddings)
                     /\ ret' = List(RewardEvents(batch_rewards, historic_rewards))
                     /\ obs' = Observed(Len(historic_embeddings), 1, embeddings,
                                        Seen(batch), Seen(historic), unique(embeddings))

Next == \E cs \in Batches : get_rewards(cs)

Spec == Init /\ [][Next]_vars

\* ---------------------------------------------------------- properties
\* The last request had completions and returned its list of reward events.
Scored == completions # << >> /\ ret.type = "list"
\* The last request did the historic scoring.
HistoricScored == completions # << >> /\ obs.historic.window # << >>

\* The last n entries of s.
Suffix(s, n) == SubSeq(s, Len(s) - n + 1, Len(s))

\* batch with each maximal run of equal vectors reduced to its first one:
\* the rows that start a run, in their order.
RunStarts(batch) == {i \in 1..Len(batch) : i = 1 \/ batch[i] # batch[i - 1]}
Collapsed(batch) ==
    Rows([j \in 1..Cardinality(RunStarts(batch)) |->
            batch[CHOOSE i \in RunStarts(batch) :
                    Cardinality({m \in RunStarts(batch) : m <= i}) = j]])

NoAdjacentEqual(s) == \A i \in 1..(Len(s) - 1) : s[i] # s[i + 1]

\* 1 - |cosine similarity| of two embeddings, in units of 1 / Unit.
Distance(x, y) == Unit - Abs(Dot(x, y))

\* The value at rank k (1-based) of the distances of x to the rows of columns,
\* sorted ascending: some row is at that distance, fewer than k rows are
\* nearer, and at least k are as near.
RankedDistance(x, columns, k) ==
    LET cols == Rows(columns)
        distance == Rows([j \in 1..Len(cols) |-> Distance(x, cols[j])])
        nearer(d) == Cardinality({j \in 1..Len(distance) : distance[j] < d})
        as_near(d) == Cardinality({j \in 1..Len(distance) : distance[j] <= d})
    IN  CHOOSE d \in {distance[j] : j \in 1..Len(distance)} :
            nearer(d) < k /\ as_near(d) >= k

\* C1: the store never holds more than 15500 rows, and a request that
\* appends leaves exactly the last min(15500, length) rows of the previous
\* store followed by the reduced batch: only the oldest rows are dropped and
\* the order is kept.
C1_HistoryBounded ==
    [][/\ Len(historic_embeddings) <= 15500
       /\ Len(historic_embeddings') <= 15500
       /\ (completions' # << >> /\ ret'.type = "list") =>
            LET all == historic_embeddings \o Collapsed(obs'.embeddings)
            IN  historic_embeddings' = Suffix(all, Min(15500, Len(all)))]_vars

\* C1 witness: an append went past the capacity and the store is full.
C1_Witness ==
    /\ Scored
    /\ obs.size + Len(obs.appended) > 15500
    /\ Len(historic_embeddings) = 15500

\* C2: a request with an empty completions list returns an empty sequence
\* of reward records, calls the embedder not at all and leaves the store as
\* it was.
C2_EmptyCompletions ==
    [][completions' = << >> =>
        /\ ret' = List(<< >>)
        /\ obs'.embedder_calls = 0
        /\ historic_embeddings' = historic_embeddings]_vars

\* C3: after a request with completions, when the store held fewer than
\* 500 + 2 rows at the request every record has no historic component and
\* its reward is its batch component; with at least 500 + 2 rows every
\* record has a historic component.
C3_HistoricAbsentBelowThreshold ==
    Scored =>
        /\ Len(ret.items) = Len(completions)
        /\ \A i \in 1..Len(ret.items) :
            IF obs.size < 500 + 2
            THEN ret.items[i].historic = None /\ ret.items[i].reward = ret.items[i].batch
            ELSE ret.items[i].historic # None

\* C3 witness: a scored request against a store one row short of 500 + 2.
C3_Witness ==
    /\ Scored
    /\ obs.size = 500 + 2 - 1
    /\ \A i \in 1..Len(ret.items) : ret.items[i].historic = None

\* C4: the historic rewards of a request are computed from the store as it
\* was before the request's append: the columns of the comparison end at the
\* last row the store had at the request, and each historic reward is the
\* one that store gives.
C4_HistoricBeforeAppend ==
    [][(completions' # << >> /\ obs'.historic.window # << >>) =>
        /\ obs'.size = Len(historic_embeddings)
        /\ obs'.historic.window[2] = Len(historic_embeddings)
        /\ obs'.historic.columns =
              obs'.historic.window[2] - obs'.historic.window[1] + 1
        /\ ret'.type = "list"
        /\ LET first == obs'.historic.window[1]
               before == SubSeq(historic_embeddings, first, Len(historic_embeddings))
           IN  \A i \in 1..Len(ret'.items) :
                  ret'.items[i].historic =
                    Float(HistoricSigmoid[1 + RankedDistance(obs'.embeddings[i], before,
                                                             obs'.historic.bottom_k)])]_vars

\* C4 witness: a request was scored against the history and then appended
\* rows that a scoring after the append would have given another reward.
C4_Witness ==
    /\ Scored
    /\ HistoricScored
    /\ Len(historic_embeddings) > obs.size
    /\ \E i \in 1..Len(ret.items) :
          ret.items[i].historic #
            Float(HistoricSigmoid[1 + RankedDistance(obs.embeddings[i],
                    SubSeq(historic_embeddings, obs.historic.window[1],
                           Len(historic_embeddings)),
                    obs.historic.bottom_k)])

\* C5: the rows a request adds to the store are its batch with every
\* maximal run of equal vectors reduced to its first vector; the first
\* vector of the batch is kept, and a batch of equal vectors adds one row.
C5_RunsCollapsed ==
    Scored =>
        /\ obs.embeddings = get_embeddings(completions)
        /\ obs.appended = Collapsed(obs.embeddings)
        /\ obs.appended[1] = obs.embeddings[1]
        /\ (\A i \in 1..Len(obs.embeddings) : obs.embeddings[i] = obs.embeddings[1])
              => Len(obs.appended) = 1
        /\ Suffix(historic_embeddings, Len(obs.appended)) = obs.appended

\* C5 witness: a batch with a run of two equal vectors after a different
\* first one was appended.
C5_Witness ==
    /\ Scored
    /\ Len(obs.embeddings) = 3
    /\ obs.embeddings[1] # obs.embeddings[2]
    /\ obs.embeddings[2] = obs.embeddings[3]
    /\ Len(obs.appended) = 2

\* C6 as claimed: the historic comparison is against the store without its
\* most recent 500 rows.
C6_RecentExcluded ==
    [][(completions' # << >> /\ obs'.historic.window # << >>) =>
        /\ obs'.historic.window = <<1, Len(historic_embeddings) - 500>>
        /\ ret'.type = "list"
        /\ \A i \in 1..Len(ret'.items) :
              ret'.items[i].historic =
                Float(HistoricSigmoid[1 + RankedDistance(obs'.embeddings[i],
                        SubSeq(historic_embeddings, 1, Len(historic_embeddings) - 500),
                        obs'.historic.bottom_k)])]_vars

\* C6 amended: the historic comparison is against the store without its
\* oldest 500 rows, that is rows 501 to the last, the most recently
\* appended ones included.
C6_OldestExcluded ==
    [][(completions' # << >> /\ obs'.historic.window # << >>) =>
        /\ obs'.historic.window = <<500 + 1, Len(historic_embeddings)>>
        /\ obs'.historic.columns = Len(historic_embeddings) - 500
        /\ ret'.type = "list"
        /\ \A i \in 1..Len(ret'.items) :
              ret'.items[i].historic =
                Float(HistoricSigmoid[1 + RankedDistance(obs'.embeddings[i],
                        SubSeq(historic_embeddings, 500 + 1, Len(historic_embeddings)),
                        obs'.historic.bottom_k)])]_vars

\* C6 witness: a historic scoring whose columns were the two newest rows of
\* a store of 502, the last of them unlike the 500 oldest.
C6_Witness ==
    /\ HistoricScored
    /\ obs.size = 500 + 2
    /\ obs.historic.columns = 2
    /\ Len(historic_embeddings) > obs.size
    /\ historic_embeddings[obs.size] # historic_embeddings[1]

\* C7: in the batch and in the historic scoring the rank of the bottom-k
\* selection is min(configured k, number of columns of the similarity
\* matrix), and each reward is the regularised value at that rank.
C7_RankClampedToColumns ==
    [][(completions' # << >> /\ ret'.type = "list") =>
        /\ obs'.batch.bottom_k = Min(reward_bottom_k, obs'.batch.columns)
        /\ \A i \in 1..Len(ret'.items) :
              ret'.items[i].batch =
                BatchSigmoid[1 + RankedDistance(obs'.embeddings[i], obs'.embeddings,
                                                Min(reward_bottom_k, obs'.batch.columns))]
        /\ (obs'.historic.window # << >>) =>
              /\ obs'.historic.bottom_k =
                    Min(history_reward_bottom_k, obs'.historic.columns)
              /\ \A i \in 1..Len(ret'.items) :
                    ret'.items[i].historic =
                      Float(HistoricSigmoid[1 + RankedDistance(obs'.embeddings[i],
                              HistoricWindow(historic_embeddings),
                              Min(history_reward_bottom_k, obs'.historic.columns))])]_vars

\* C8: the reduction looks at the batch alone: a batch whose first vector
\* equals the last row of the store still adds that vector, so the store
\* then holds two equal rows next to each other, while the rows one batch
\* adds are never equal to their neighbour within the batch.
C8_NoDeduplicationAgainstStore ==
    (Scored /\ obs.size > 0) =>
        LET before == Len(historic_embeddings) - Len(obs.appended)
        IN  /\ before >= 1
            /\ NoAdjacentEqual(obs.appended)
            /\ Suffix(historic_embeddings, Len(obs.appended)) = obs.appended
            /\ historic_embeddings[before + 1] = obs.embeddings[1]

\* C8 witness: the first row a batch added equals the row before it.
C8_Witness ==
    /\ Scored
    /\ obs.size > 0
    /\ LET before == Len(historic_embeddings) - Len(obs.appended)
       IN  historic_embeddings[before] = historic_embeddings[before + 1]

\* C9 as claimed: in a batch of three embeddings whose first two are equal
\* and whose third is different, each of the first two gets a batch reward
\* strictly below the third's.
C9_DuplicatesBelowDistinct ==
    (Scored /\ Len(obs.embeddings) = 3
        /\ obs.embeddings[1] = obs.embeddings[2]
        /\ obs.embeddings[3] # obs.embeddings[1]) =>
            /\ ret.items[1].batch < ret.items[3].batch
            /\ ret.items[2].batch < ret.items[3].batch

\* C9 amended: the same, for a third embedding that is neither equal nor
\* exactly opposite to the first two (|cosine similarity| below 1): the two
\* equal items get the reward of raw score 0, the third the reward of its
\* dissimilarity to them, which is strictly more.
C9_DuplicatesBelowUnaligned ==
    (Scored /\ Len(obs.embeddings) = 3
        /\ obs.embeddings[1] = obs.embeddings[2]
        /\ Abs(Dot(obs.embeddings[3], obs.embeddings[1])) < Unit) =>
            /\ ret.items[1].batch = BatchSigmoid[1]
            /\ ret.items[2].batch = BatchSigmoid[1]
            /\ ret.items[3].batch =
                  BatchSigmoid[1 + Distance(obs.embeddings[3], obs.embeddings[1])]
            /\ ret.items[1].batch < ret.items[3].batch
            /\ ret.items[2].batch < ret.items[3].batch

\* C9 witness: such a batch was scored.
C9_Witness ==
    /\ Scored
    /\ Len(obs.embeddings) = 3
    /\ obs.embeddings[1] = obs.embeddings[2]
    /\ Abs(Dot(obs.embeddings[3], obs.embeddings[1])) < Unit

\* C10: the historic scoring is done exactly when the store holds at least
\* 500 + history_reward_bottom_k rows, and then its window has at least
\* history_reward_bottom_k columns, the selection asks for no more values
\* than there are columns, and the request returns its rewards.
C10_WindowHoldsBottomK ==
    (completions # << >>) =>
        /\ (obs.historic.window # << >>) <=> (obs.size >= 500 + history_reward_bottom_k)
        /\ (obs.historic.window # << >>) =>
              /\ obs.historic.columns >= history_reward_bottom_k
              /\ obs.historic.bottom_k >= 1
              /\ obs.historic.bottom_k <= obs.historic.columns
        /\ ret.type = "list"

\* C10 witness: a batch of two rows scored against the smallest store that
\* passes the size test.
C10_Witness ==
    /\ HistoricScored
    /\ obs.size = 500 + history_reward_bottom_k
    /\ obs.historic.columns = history_reward_bottom_k
    /\ Len(obs.embeddings) >= 2

====
